---- MODULE Spec2Model ----
(***************************************************************************)
(* State-machine model of DrumEngine (src/services/drumEngine.ts): the     *)
(* effects chain (RAT pedal, compressor, master gain), the four voice      *)
(* synthesizers, the noise buffer generator and the engine's public        *)
(* operations; and of MidiService (src/unnamed/part_000): devices, clock,  *)
(* callback registries, controller mappings and incoming messages.         *)
(*                                                                         *)
(* Fixed-point units used throughout:                                      *)
(*   volume, tune, decay, tone, RatConfig fields, Q, chain gains : 1/10    *)
(*   velocity                                   : MIDI units (vel = v/127) *)
(*   voice gain values (envelopes, levels)      : 1/127000                 *)
(*   voice frequencies                          : 1/100 Hz                 *)
(*   chain filter cutoff                        : Hz, rounded down         *)
(*   times                                      : milliseconds             *)
(*   noise samples, Math.random()               : 1/1000000                *)
(*   scaled controller values                   : 1/127                    *)
(***************************************************************************)
EXTENDS Integers, Sequences, FiniteSets, Bags, TLC

\* ------------------------------------------------------------------ bounds
MaxVoices == 2

MaxClock == 2

MaxNoiseCalls == 2

MaxPulses == 2

MaxCallbacks == 1

\* ------------------------------------------------------------------ inputs
DrumTypes == {"KICK", "SNARE", "HAT", "CLAP"}

CfgScenario == [volume |-> 10, tune |-> 5, decay |-> 5, tone |-> 5, velocity |-> 127]
CfgSilent == [volume |-> 0, tune |-> 0, decay |-> 5, tone |-> 5, velocity |-> 100]
CfgMuted == [volume |-> 8, tune |-> 10, decay |-> 5, tone |-> 5, velocity |-> 0]
CfgOutOfRange == [volume |-> 15, tune |-> 20, decay |-> 5, tone |-> 5, velocity |-> 200]

\* <<time, config>> pairs handed to trigger
TriggerInputs ==
  {<<1000, CfgScenario>>, <<0, CfgSilent>>, <<250, CfgMuted>>, <<500, CfgOutOfRange>>}

\* Partial<RatConfig> values handed to updateRat, as sets of <<key, value>>
EmptyPartial == {}
RatPartials ==
  { EmptyPartial,
    {<<"distortion", 10>>, <<"volume", 5>>},
    {<<"distortion", 16>>, <<"filter", 15>>, <<"volume", 15>>} }

\* the partials handed to updateRat when the chain is studied on its own
ChainPartials ==
  RatPartials \cup
  { {<<"filter", 0>>}, {<<"filter", 5>>}, {<<"filter", 10>>},
    {<<"distortion", 1>>}, {<<"volume", 10>>} }

MasterVols == {5, 15}

\* Math.random() outcomes (tenths) consumed by one hi-hat trigger
RandomStreams == { <<0, 5, 9, 2, 7, 4>>, <<9, 9, 0, 0, 5, 5>> }

InRange(config) ==
  /\ config.volume \in 0..10
  /\ config.tune \in 0..10
  /\ config.velocity \in 0..127

\* ------------------------------------------------------------------- state
VARIABLES
  ratConfig,        \* this.ratConfig
  kickModEnabled,   \* this.kickModEnabled
  ratPreGain,       \* this.ratPreGain.gain
  ratWaveshaper,    \* this.ratWaveshaper.curve
  ratFilter,        \* this.ratFilter.frequency
  ratPostGain,      \* this.ratPostGain.gain
  compressor,       \* this.compressor parameters
  outputNode,       \* this.outputNode.gain
  conns,            \* connections between the chain's nodes and the destination
  voices,           \* bag of the voice sub-graphs that trigger calls have built
  disposed,         \* history: dispose() has been called
  currentTime,      \* this.ctx.currentTime, in steps of 10 ms
  sampleRate,       \* this.ctx.sampleRate, in Hz
  buffers,          \* the AudioBuffers ctx.createBuffer has returned, in order
  bufferSources,    \* per AudioBufferSourceNode, the index of the buffer assigned to it
  noiseCalls,       \* history: the createNoiseBuffer calls and their outcome
  \* MidiService
  access,           \* this.access is not null
  inputs,           \* this.inputs: the ids of the known MIDI inputs
  outputs,          \* this.outputs: the ids of the known MIDI outputs
  onmidimessage,    \* the inputs whose onmidimessage is handleMidiMessage
  activeInputId,    \* this.activeInputId, "null" when null
  activeOutputId,   \* this.activeOutputId, "null" when null
  clockConfig,      \* this.clockConfig
  clockInterval,    \* this.clockInterval: a timer handle, 0 when null
  timers,           \* the window's active interval timers
  ppqCounter,       \* this.ppqCounter
  externalClockCallbacks,
  noteOnCallbacks,  \* Map moduleId -> callback, as <<moduleId, callback>> in insertion order
  noteOffCallbacks,
  ccCallbacks,
  transportCallbacks,
  programChangeCallbacks,
  ccMappings,       \* this.ccMappings
  isLearning,       \* this.isLearning
  learningCallback, \* this.learningCallback, "null" when null
  lastCc,           \* this.lastCc, << >> when null
  lastNote,         \* this.lastNote, << >> when null
  invoked,          \* the callback invocations made by the last incoming message
  midiOut           \* the messages the last timer pulse handed to output.send

engineVars == <<ratConfig, kickModEnabled, ratPreGain, ratWaveshaper, ratFilter,
                ratPostGain, compressor, outputNode, conns, voices, disposed, currentTime>>

noiseVars == <<sampleRate, buffers, bufferSources, noiseCalls>>

midiDeviceVars == <<access, inputs, outputs, onmidimessage, activeInputId, activeOutputId>>
midiClockVars == <<clockConfig, clockInterval, timers, ppqCounter>>
midiCallbackVars == <<externalClockCallbacks, noteOnCallbacks, noteOffCallbacks, ccCallbacks,
                      transportCallbacks, programChangeCallbacks>>
midiCcVars == <<ccMappings, isLearning, learningCallback>>
midiLastVars == <<lastCc, lastNote, invoked, midiOut>>

midiVars == <<midiDeviceVars, midiClockVars, midiCallbackVars, midiCcVars, midiLastVars>>

nonEngineVars == <<noiseVars, midiVars>>

nonMidiVars == <<engineVars, noiseVars>>

vars == <<engineVars, noiseVars, midiVars>>

chainParams == <<ratPreGain, ratWaveshaper, ratFilter, ratPostGain, compressor, outputNode>>

\* --------------------------------------------------------- audio platform
\* AudioParam.value = v
SetValue(v) ==
  [target |-> v, via |-> "value", startTime |-> 0, timeConstant |-> 0]

\* AudioParam.setTargetAtTime(v, now, timeConstant)
SetTargetAtTime(v, now, tc) ==
  [target |-> v, via |-> "setTargetAtTime", startTime |-> now, timeConstant |-> tc]

\* WaveShaperNode.curve = table: the node uses the new table from then on
SetCurve(table) == [curve |-> table, via |-> "assignment"]

\* AudioParam.exponentialRampToValueAtTime raises a RangeError for a target of 0
ExpRampThrows(value) == value = 0

\* round(10^6 * Math.tanh(z/1000)) at the arguments z (thousandths) that the
\* modelled curve entries need; Math.tanh is tabulated, not computed
TanhTable ==
  (0 :> 0) @@ (32 :> 31989) @@ (48 :> 47963) @@ (112 :> 111534) @@
  (160 :> 158649) @@ (168 :> 166437) @@ (192 :> 189675) @@ (240 :> 235496) @@
  (272 :> 265485) @@ (288 :> 280293) @@ (352 :> 338148) @@ (408 :> 386773) @@
  (432 :> 406991) @@ (528 :> 483851) @@ (560 :> 507977) @@ (648 :> 570322) @@
  (800 :> 664037) @@ (840 :> 685809) @@ (960 :> 744277) @@ (1200 :> 833655) @@
  (1360 :> 876393) @@ (1440 :> 893698) @@ (1760 :> 942503) @@ (2040 :> 966747) @@
  (2160 :> 973749) @@ (2400 :> 983675) @@ (2640 :> 989867) @@ (2800 :> 992632) @@
  (3240 :> 996937) @@ (3600 :> 998508) @@ (4200 :> 999550) @@ (4800 :> 999865) @@
  (6800 :> 999998) @@ (7200 :> 999999)

\* Math.tanh on thousandths, result in millionths (odd; 1 - tanh(8) < 10^-6)
Tanh(z) ==
  LET a == IF z < 0 THEN -z ELSE z
      t == IF a >= 8000 THEN 1000000 ELSE TanhTable[a]
  IN IF z < 0 THEN -t ELSE t

\* floor(200 * Math.pow(20000 / 200, f/10)) in Hz for f = -5..20 tenths
PowTable ==
  <<20, 31, 50, 79, 126, 200, 316, 502, 796, 1261, 2000, 3169, 5023,
    7962, 12619, 20000, 31697, 50237, 79621, 126191, 200000, 316978,
    502377, 796214, 1261914, 2000000>>

\* mutant: minFreq and maxFreq swapped, the knob sweeps downwards
FilterFreq_swapped(filter) == PowTable[(10 - filter) + 6]

FilterFreq(filter) == PowTable[filter + 6]

\* ------------------------------------------------------------ effects chain
\* the entries of the 44100-entry curve that the model keeps: index 0 (x = -1)
\* and 22050 + n for n = 0, +-147, +-735, +-3675, +-11025, that is
\* x = 2*i/44100 - 1 = 0, +-1/150, +-1/30, +-1/6, +-1/2
CurveIndices ==
  {0, 11025, 18375, 21315, 21903, 22050, 22197, 22785, 25725, 33075}

\* mutant: both branches use the same clipping, tanh(x * k)
makeRatCurve_symmetric(amount) ==
  LET samples == 44100
      k == amount * 5 + 1
  IN [i \in CurveIndices |->
        LET xs == i * 2 - samples
        IN IF xs >= 0
             THEN Tanh((xs * k * 12) \div (samples \div 100))
             ELSE Tanh(-((-xs * k * 12) \div (samples \div 100)))]

\* curve values in millionths; amount in tenths
makeRatCurve(amount) ==
  LET samples == 44100
      k == amount * 5 + 1                          \* amount * 50 + 1
  IN [i \in CurveIndices |->
        LET xs == i * 2 - samples                   \* x * samples
        IN IF xs >= 0
             THEN (Tanh((xs * k * 12) \div (samples \div 100)) * 9) \div 10
             ELSE Tanh(-((-xs * k * 8) \div (samples \div 100)))]

ChainNodes == {"ratInput", "ratPreGain", "ratWaveshaper", "ratFilter",
               "ratPostGain", "compressor", "outputNode", "destination"}

setupRatPedalConns ==
  { <<"ratInput", "ratPreGain">>, <<"ratPreGain", "ratWaveshaper">>,
    <<"ratWaveshaper", "ratFilter">>, <<"ratFilter", "ratPostGain">> }

setupCompressor ==
  [threshold |-> -12, knee |-> 6, ratio |-> 4, attack |-> 3, release |-> 150]

DefaultRatConfig == [distortion |-> 4, filter |-> 8, volume |-> 8]

\* no noise buffer has been created yet
NoiseInit(rate) ==
  /\ sampleRate = rate
  /\ buffers = << >>
  /\ bufferSources = << >>
  /\ noiseCalls = << >>

\* MidiService field initialisers and constructor
MidiInit ==
  /\ access = FALSE
  /\ inputs = {}
  /\ outputs = {}
  /\ onmidimessage = {}
  /\ activeInputId = "null"
  /\ activeOutputId = "null"
  /\ clockConfig = [source |-> "internal", sendClock |-> FALSE, sendTransport |-> TRUE]
  /\ clockInterval = 0
  /\ timers = {}
  /\ ppqCounter = 0
  /\ externalClockCallbacks = << >>
  /\ noteOnCallbacks = << >>
  /\ noteOffCallbacks = << >>
  /\ ccCallbacks = << >>
  /\ transportCallbacks = << >>
  /\ programChangeCallbacks = << >>
  /\ ccMappings = << >>
  /\ isLearning = FALSE
  /\ learningCallback = "null"
  /\ lastCc = << >>
  /\ lastNote = << >>
  /\ invoked = << >>
  /\ midiOut = << >>

\* constructor
EngineInit ==
  /\ ratConfig = DefaultRatConfig
  /\ kickModEnabled = FALSE
  /\ ratPreGain = SetValue(10)
  /\ ratWaveshaper = SetCurve(makeRatCurve(4))
  /\ ratFilter = SetValue(8000)
  /\ ratPostGain = SetValue(8)
  /\ compressor = setupCompressor
  /\ outputNode = SetValue(10)
  /\ conns = setupRatPedalConns \cup
             { <<"ratPostGain", "compressor">>, <<"compressor", "outputNode">>,
               <<"outputNode", "destination">> }
  /\ voices = EmptyBag
  /\ disposed = FALSE
  /\ currentTime = 0

Init == EngineInit /\ NoiseInit(44100) /\ MidiInit

\* mutant: the partial replaces the config, absent fields fall back to defaults
ObjectAssign_replace(target, partial) ==
  [f \in DOMAIN target |->
     IF \E kv \in partial : kv[1] = f
       THEN (CHOOSE kv \in partial : kv[1] = f)[2]
       ELSE DefaultRatConfig[f]]

\* Object.assign(target, partial)
ObjectAssign(target, partial) ==
  [f \in DOMAIN target |->
     IF \E kv \in partial : kv[1] = f
       THEN (CHOOSE kv \in partial : kv[1] = f)[2]
       ELSE target[f]]

\* mutant: the drive is computed from the config as it was before the merge
updateRat_staleDrive(config) ==
  LET merged == ObjectAssign(ratConfig, config)
      now == currentTime
      drive == 10 + ratConfig.distortion * 10
      freq == FilterFreq(merged.filter)
  IN /\ ratConfig' = merged
     /\ ratPreGain' = SetTargetAtTime(drive, now, 50)
     /\ ratWaveshaper' = SetCurve(makeRatCurve(merged.distortion))
     /\ ratFilter' = SetTargetAtTime(freq, now, 50)
     /\ ratPostGain' = SetTargetAtTime(merged.volume, now, 50)
     /\ UNCHANGED <<kickModEnabled, compressor, outputNode, conns, voices, disposed, currentTime>>
     /\ UNCHANGED nonEngineVars

updateRat(config) ==
  LET merged == ObjectAssign(ratConfig, config)
      now == currentTime
      drive == 10 + merged.distortion * 10
      freq == FilterFreq(merged.filter)
  IN /\ ratConfig' = merged
     /\ ratPreGain' = SetTargetAtTime(drive, now, 50)
     /\ ratWaveshaper' = SetCurve(makeRatCurve(merged.distortion))
     /\ ratFilter' = SetTargetAtTime(freq, now, 50)
     /\ ratPostGain' = SetTargetAtTime(merged.volume, now, 50)
     /\ UNCHANGED <<kickModEnabled, compressor, outputNode, conns, voices, disposed, currentTime>>
     /\ UNCHANGED nonEngineVars

setKickMod(enabled) ==
  /\ kickModEnabled' = enabled
  /\ UNCHANGED <<ratConfig, ratPreGain, ratWaveshaper, ratFilter, ratPostGain,
                 compressor, outputNode, conns, voices, disposed, currentTime>>
  /\ UNCHANGED nonEngineVars

\* mutant: the master volume is also written to the pedal's output level
setMasterVolume_alsoPedal(vol) ==
  /\ outputNode' = SetTargetAtTime(vol, currentTime, 50)
  /\ ratPostGain' = SetTargetAtTime(vol, currentTime, 50)
  /\ UNCHANGED <<ratConfig, kickModEnabled, ratPreGain, ratWaveshaper, ratFilter,
                 compressor, conns, voices, disposed, currentTime>>
  /\ UNCHANGED nonEngineVars

setMasterVolume(vol) ==
  /\ outputNode' = SetTargetAtTime(vol, currentTime, 50)
  /\ UNCHANGED <<ratConfig, kickModEnabled, ratPreGain, ratWaveshaper, ratFilter,
                 ratPostGain, compressor, conns, voices, disposed, currentTime>>
  /\ UNCHANGED nonEngineVars

\* mutant: disconnecting one node tears down every connection
Disconnect_all(node, edges) == {}

\* AudioNode.disconnect(): removes every outgoing connection of the node
Disconnect(node, edges) == { e \in edges : e[1] # node }

\* mutant: dispose disconnects the chain input instead of the master gain
dispose_wrongNode ==
  /\ conns' = Disconnect("ratInput", conns)
  /\ disposed' = TRUE
  /\ UNCHANGED <<ratConfig, kickModEnabled, ratPreGain, ratWaveshaper, ratFilter,
                 ratPostGain, compressor, outputNode, voices, currentTime>>
  /\ UNCHANGED nonEngineVars

dispose ==
  /\ conns' = Disconnect("outputNode", conns)
  /\ disposed' = TRUE
  /\ UNCHANGED <<ratConfig, kickModEnabled, ratPreGain, ratWaveshaper, ratFilter,
                 ratPostGain, compressor, outputNode, voices, currentTime>>
  /\ UNCHANGED nonEngineVars


\* ------------------------------------------------------ voice sub-graphs
\* scheduled AudioParam events
SetValueAtTime(v, t) == [op |-> "setValueAtTime", value |-> v, time |-> t]
LinearRamp(v, t) == [op |-> "linearRampToValueAtTime", value |-> v, time |-> t]
ExpRamp(v, t) == [op |-> "exponentialRampToValueAtTime", value |-> v, time |-> t]

\* nodes of a sub-graph
GainNode(events) ==
  [kind |-> "gain", type |-> "gain", frequency |-> 0, Q |-> 0, gain |-> events]
Biquad(type, freq, q) ==
  [kind |-> "biquad", type |-> type, frequency |-> freq, Q |-> q, gain |-> <<>>]

\* mutant: the oscillator is started but its stop call is missing
Oscillator_neverStopped(type, freqEvents, detune, via, start, stop) ==
  [kind |-> "oscillator", type |-> type, frequency |-> freqEvents, detune |-> detune,
   buffer |-> [duration |-> 0, length |-> 0], via |-> via,
   start |-> start, stop |-> {}]

\* a started oscillator; stop is the set of scheduled stop times
Oscillator(type, freqEvents, detune, via, start, stop) ==
  [kind |-> "oscillator", type |-> type, frequency |-> freqEvents, detune |-> detune,
   buffer |-> [duration |-> 0, length |-> 0], via |-> via,
   start |-> start, stop |-> stop]

\* a started AudioBufferSourceNode playing a noise buffer once (loop is never set)
BufferSource(buffer, start, stop) ==
  [kind |-> "bufferSource", type |-> "noise", frequency |-> <<>>, detune |-> 0,
   buffer |-> buffer, via |-> <<>>, start |-> start, stop |-> stop]

\* one layer: sources -> nodes[1] -> ... -> nodes[Len] -> out
Layer(name, sources, nodes, out) ==
  [name |-> name, sources |-> sources, nodes |-> nodes, out |-> out]

\* the outcome of building one layer: throws when one of its exponential ramps
\* is rejected, which in every layer happens before its connect and start calls
Built(layer, rampTargets) ==
  [layer |-> layer, throws |-> \E v \in rampTargets : ExpRampThrows(v)]

\* the layers connected before the first exception, and whether one was raised
Commit(built) ==
  LET bad == { i \in DOMAIN built : built[i].throws }
      n == IF bad = {} THEN Len(built)
           ELSE (CHOOSE i \in bad : \A j \in bad : i <= j) - 1
  IN [layers |-> [i \in 1..n |-> built[i].layer], threw |-> bad # {}]

SampleRate == 44100

CeilDiv(a, b) == (a + b - 1) \div b

\* mutant: the length is rounded down
NoiseLength_floor(rate, duration) == (rate * duration) \div 1000

\* Math.ceil(sampleRate * duration), duration in ms
NoiseLength(rate, duration) == CeilDiv(rate * duration, 1000)

\* createNoiseBuffer(duration), duration in ms; the samples are Math.random()*2-1
createNoiseBuffer(duration) ==
  [duration |-> duration, length |-> NoiseLength(SampleRate, duration)]

\* masterVol = volume * (velocity / 127), in 1/127000
MasterVol(config) == config.volume * config.velocity * 100

\* masterVol * c, c in tenths
Times(masterVol, c) == (masterVol * c) \div 10

Epsilon == 127        \* the ramp target 0.001 in 1/127000

\* ------------------------------------------------------------------- kick
\* mutant: the 40-60 Hz range of the header comment instead of 35-55 Hz
KickBaseFreq_4060(tune) == 4000 + tune * 200

KickBaseFreq(tune) == 3500 + tune * 200

KickSub(time, masterVol, tune, isModded) ==
  LET baseFreq == KickBaseFreq(tune)
      envEnd == time + (IF isModded THEN 400 ELSE 500)
  IN Built(
       Layer("sub",
             << Oscillator("sine", << SetValueAtTime(baseFreq, time) >>, 0, <<>>,
                           time, {time + 600}) >>,
             << GainNode(<< SetValueAtTime(0, time),
                            LinearRamp(Times(masterVol, 8), time + 5),
                            ExpRamp(Epsilon, envEnd) >>) >>,
             "ratInput"),
       {Epsilon})

KickBody(time, masterVol, tune, isModded) ==
  LET startPitch == IF isModded THEN 30000 + tune * 1000 ELSE 18000 + tune * 600
      endPitch == KickBaseFreq(tune)
      pitchTime == IF isModded THEN 40 ELSE 80
  IN Built(
       Layer("body",
             << Oscillator("sine", << SetValueAtTime(startPitch, time),
                                      ExpRamp(endPitch, time + pitchTime) >>, 0, <<>>,
                           time, {time + 400}) >>,
             << GainNode(<< SetValueAtTime(Times(masterVol, IF isModded THEN 12 ELSE 9), time),
                            ExpRamp(Epsilon, time + (IF isModded THEN 250 ELSE 350)) >>) >>,
             "ratInput"),
       {endPitch, Epsilon})

\* mutant: the click layer is wired past the pedal, straight into the compressor
KickClick_bypass(time, masterVol, isModded) ==
  Built(
    Layer("click",
          << Oscillator(IF isModded THEN "sawtooth" ELSE "square",
                        << SetValueAtTime(IF isModded THEN 12000 ELSE 8000, time),
                           ExpRamp(4000, time + 20) >>, 0, <<>>,
                        time, {time + 50}) >>,
          << Biquad("highpass", IF isModded THEN 10000 ELSE 6000, 10),
             GainNode(<< SetValueAtTime(Times(masterVol, IF isModded THEN 5 ELSE 3), time),
                         ExpRamp(Epsilon, time + 30) >>) >>,
          "compressor"),
    {4000, Epsilon})

KickClick(time, masterVol, isModded) ==
  Built(
    Layer("click",
          << Oscillator(IF isModded THEN "sawtooth" ELSE "square",
                        << SetValueAtTime(IF isModded THEN 12000 ELSE 8000, time),
                           ExpRamp(4000, time + 20) >>, 0, <<>>,
                        time, {time + 50}) >>,
          << Biquad("highpass", IF isModded THEN 10000 ELSE 6000, 10),
             GainNode(<< SetValueAtTime(Times(masterVol, IF isModded THEN 5 ELSE 3), time),
                         ExpRamp(Epsilon, time + 30) >>) >>,
          "ratInput"),
    {4000, Epsilon})

KickNoise(time, masterVol) ==
  Built(
    Layer("noise",
          << BufferSource(createNoiseBuffer(20), time, {}) >>,
          << Biquad("highpass", 50000, 10),
             Biquad("lowpass", 200000, 10),
             GainNode(<< SetValueAtTime(Times(masterVol, 2), time),
                         ExpRamp(Epsilon, time + 15) >>) >>,
          "ratInput"),
    {Epsilon})

\* mutant: the click layer is always built in its unmodded form
triggerKick_clickIgnoresMod(time, config) ==
  LET masterVol == MasterVol(config)
      isModded == kickModEnabled
  IN Commit(<< KickSub(time, masterVol, config.tune, isModded),
               KickBody(time, masterVol, config.tune, isModded),
               KickClick(time, masterVol, FALSE) >>
            \o (IF isModded THEN << KickNoise(time, masterVol) >> ELSE << >>))

\* mutant: the noise transient is built whatever the flag says
triggerKick_noiseAlways(time, config) ==
  LET masterVol == MasterVol(config)
      isModded == kickModEnabled
  IN Commit(<< KickSub(time, masterVol, config.tune, isModded),
               KickBody(time, masterVol, config.tune, isModded),
               KickClick(time, masterVol, isModded),
               KickNoise(time, masterVol) >>)

triggerKick(time, config) ==
  LET masterVol == MasterVol(config)
      isModded == kickModEnabled
  IN Commit(<< KickSub(time, masterVol, config.tune, isModded),
               KickBody(time, masterVol, config.tune, isModded),
               KickClick(time, masterVol, isModded) >>
            \o (IF isModded THEN << KickNoise(time, masterVol) >> ELSE << >>))

\* ------------------------------------------------------------------ snare
SnareBodyLow(time, masterVol, tune) ==
  LET bodyFreq == 15000 + tune * 1000
  IN Built(
       Layer("bodyLow",
             << Oscillator("sine", << SetValueAtTime((bodyFreq * 8) \div 10, time) >>, 0, <<>>,
                           time, {time + 200}) >>,
             << GainNode(<< SetValueAtTime(Times(masterVol, 5), time),
                            ExpRamp(Epsilon, time + 150) >>) >>,
             "ratInput"),
       {Epsilon})

SnareBodyHigh(time, masterVol, tune) ==
  LET bodyFreq == 15000 + tune * 1000
      endFreq == (bodyFreq * 12) \div 10
  IN Built(
       Layer("bodyHigh",
             << Oscillator("triangle", << SetValueAtTime(bodyFreq * 2, time),
                                          ExpRamp(endFreq, time + 50) >>, 0, <<>>,
                           time, {time + 150}) >>,
             << GainNode(<< SetValueAtTime(Times(masterVol, 4), time),
                            ExpRamp(Epsilon, time + 100) >>) >>,
             "ratInput"),
       {endFreq, Epsilon})

\* mutant: the wires are stopped 200 ms after the trigger, before their decay ends
SnareWires_shortStop(time, masterVol, tune) ==
  Built(
    Layer("wires",
          << BufferSource(createNoiseBuffer(300), time, {time + 200}) >>,
          << Biquad("highpass", 200000, 5),
             Biquad("lowpass", 800000 + tune * 40000, 5),
             GainNode(<< SetValueAtTime(Times(masterVol, 6), time),
                         ExpRamp(Times(masterVol, 1), time + 80),
                         ExpRamp(Epsilon, time + 250) >>) >>,
          "ratInput"),
    {Times(masterVol, 1), Epsilon})

SnareWires(time, masterVol, tune) ==
  Built(
    Layer("wires",
          << BufferSource(createNoiseBuffer(300), time, {time + 350}) >>,
          << Biquad("highpass", 200000, 5),
             Biquad("lowpass", 800000 + tune * 40000, 5),
             GainNode(<< SetValueAtTime(Times(masterVol, 6), time),
                         ExpRamp(Times(masterVol, 1), time + 80),
                         ExpRamp(Epsilon, time + 250) >>) >>,
          "ratInput"),
    {Times(masterVol, 1), Epsilon})

SnareClick(time, masterVol) ==
  Built(
    Layer("click",
          << BufferSource(createNoiseBuffer(10), time, {}) >>,
          << Biquad("highpass", 100000, 10),
             GainNode(<< SetValueAtTime(Times(masterVol, 3), time),
                         ExpRamp(Epsilon, time + 10) >>) >>,
          "ratInput"),
    {Epsilon})

triggerSnare(time, config) ==
  LET masterVol == MasterVol(config)
  IN Commit(<< SnareBodyLow(time, masterVol, config.tune),
               SnareBodyHigh(time, masterVol, config.tune),
               SnareWires(time, masterVol, config.tune),
               SnareClick(time, masterVol) >>)

\* ----------------------------------------------------------------- hi-hat
\* mutant: harmonic (integer) ratios
HatRatios_harmonic == << 100, 200, 300, 400, 500, 600 >>

HatRatios == << 100, 134, 167, 191, 218, 241 >>

\* mutant: config.decay scales the envelope's decay time
triggerHiHat_decayScaled(time, config, isOpen, random) ==
  LET masterVol == MasterVol(config)
      baseFreq == 300 + config.tune * 40
      decayTime == ((IF isOpen THEN 350 ELSE 50) * (5 + config.decay)) \div 10
      osc(i) ==
        Oscillator("square",
                   << [op |-> "value", value |-> baseFreq * HatRatios[i], time |-> 0] >>,
                   (random[i] - 5) * 2,
                   << GainNode(<< [op |-> "value",
                                   value |-> 19050 - (i - 1) * 2540, time |-> 0] >>) >>,
                   time, {time + (IF isOpen THEN 500 ELSE 100)})
  IN Commit(<< Built(
       Layer("hat",
             [i \in 1..Len(HatRatios) |-> osc(i)],
             << GainNode(<< >>),
                Biquad("bandpass", 800000 + config.tune * 40000, 15),
                Biquad("highpass", 600000, 5),
                GainNode(<< SetValueAtTime(Times(masterVol, 5), time),
                            ExpRamp(Epsilon, time + decayTime) >>) >>,
             "ratInput"),
       {Epsilon}) >>)

\* random: the six Math.random() results (tenths) drawn by the call
triggerHiHat(time, config, isOpen, random) ==
  LET masterVol == MasterVol(config)
      baseFreq == 300 + config.tune * 40                \* Hz
      decayTime == IF isOpen THEN 350 ELSE 50
      osc(i) ==
        Oscillator("square",
                   << [op |-> "value", value |-> baseFreq * HatRatios[i], time |-> 0] >>,
                   (random[i] - 5) * 2,                  \* (Math.random() - 0.5) * 20 cents
                   << GainNode(<< [op |-> "value",
                                   value |-> 19050 - (i - 1) * 2540, time |-> 0] >>) >>,
                   time, {time + (IF isOpen THEN 500 ELSE 100)})
  IN Commit(<< Built(
       Layer("hat",
             [i \in 1..Len(HatRatios) |-> osc(i)],
             << GainNode(<< >>),
                Biquad("bandpass", 800000 + config.tune * 40000, 15),
                Biquad("highpass", 600000, 5),
                GainNode(<< SetValueAtTime(Times(masterVol, 5), time),
                            ExpRamp(Epsilon, time + decayTime) >>) >>,
             "ratInput"),
       {Epsilon}) >>)

\* ------------------------------------------------------------------- clap
triggerClapBurst(time, volume, tune) ==
  Built(
    Layer("burst",
          << BufferSource(createNoiseBuffer(20), time, {}) >>,
          << Biquad("bandpass", 120000 + tune * 8000, 20),
             GainNode(<< SetValueAtTime(volume, time),
                         ExpRamp(Epsilon, time + 15) >>) >>,
          "ratInput"),
    {Epsilon})

triggerClapTail(time, volume, tune) ==
  Built(
    Layer("tail",
          << BufferSource(createNoiseBuffer(250), time, {time + 300}) >>,
          << Biquad("bandpass", 150000 + tune * 10000, 10),
             Biquad("highpass", 80000, 10),
             GainNode(<< SetValueAtTime(volume, time),
                         ExpRamp(Epsilon, time + 200) >>) >>,
          "ratInput"),
    {Epsilon})

\* mutant: the loop runs i = 1..4, every burst is one spacing late
triggerClap_offByOne(time, config) ==
  LET masterVol == MasterVol(config)
      numBursts == 4
      burstSpacing == 12
      burst(i) ==
        triggerClapBurst(time + i * burstSpacing,
                         IF i < numBursts THEN Times(masterVol, 4)
                                          ELSE Times(masterVol, 8),
                         config.tune)
  IN Commit([n \in 1..numBursts |-> burst(n)]
            \o << triggerClapTail(time + 40, Times(masterVol, 3), config.tune) >>)

\* mutant: the last burst is no louder than the others
triggerClap_evenBursts(time, config) ==
  LET masterVol == MasterVol(config)
      numBursts == 4
      burstSpacing == 12
      burst(i) ==
        triggerClapBurst(time + i * burstSpacing, Times(masterVol, 4), config.tune)
  IN Commit([n \in 1..numBursts |-> burst(n - 1)]
            \o << triggerClapTail(time + 40, Times(masterVol, 3), config.tune) >>)

triggerClap(time, config) ==
  LET masterVol == MasterVol(config)
      numBursts == 4
      burstSpacing == 12
      burst(i) ==
        triggerClapBurst(time + i * burstSpacing,
                         IF i < numBursts - 1 THEN Times(masterVol, 4)
                                              ELSE Times(masterVol, 8),
                         config.tune)
  IN Commit([n \in 1..numBursts |-> burst(n - 1)]
            \o << triggerClapTail(time + 40, Times(masterVol, 3), config.tune) >>)

\* ---------------------------------------------------------------- trigger
\* mutant: a start time that has already passed is moved to the clock time
trigger_notBeforeNow(type, time, config, random) ==
  LET now == currentTime * 10
      when == IF time < now THEN now ELSE time
      built == CASE type = "KICK" -> triggerKick(when, config)
                 [] type = "SNARE" -> triggerSnare(when, config)
                 [] type = "HAT" -> triggerHiHat(when, config, FALSE, random)
                 [] type = "CLAP" -> triggerClap(when, config)
      voice == [type |-> type, time |-> time, config |-> config,
                layers |-> built.layers, threw |-> built.threw]
  IN /\ BagCardinality(voices) < MaxVoices
     /\ voices' = voices (+) SetToBag({voice})
     /\ UNCHANGED <<ratConfig, kickModEnabled, ratPreGain, ratWaveshaper, ratFilter,
                    ratPostGain, compressor, outputNode, conns, disposed, currentTime>>
     /\ UNCHANGED nonEngineVars

\* mutant: the dispatch asks for the open hi-hat
trigger_openHat(type, time, config, random) ==
  LET built == CASE type = "KICK" -> triggerKick(time, config)
                 [] type = "SNARE" -> triggerSnare(time, config)
                 [] type = "HAT" -> triggerHiHat(time, config, TRUE, random)
                 [] type = "CLAP" -> triggerClap(time, config)
      voice == [type |-> type, time |-> time, config |-> config,
                layers |-> built.layers, threw |-> built.threw]
  IN /\ BagCardinality(voices) < MaxVoices
     /\ voices' = voices (+) SetToBag({voice})
     /\ UNCHANGED <<ratConfig, kickModEnabled, ratPreGain, ratWaveshaper, ratFilter,
                    ratPostGain, compressor, outputNode, conns, disposed, currentTime>>
     /\ UNCHANGED nonEngineVars

\* mutant: a new voice chokes (removes) the earlier voices of its drum type
trigger_choke(type, time, config, random) ==
  LET built == CASE type = "KICK" -> triggerKick(time, config)
                 [] type = "SNARE" -> triggerSnare(time, config)
                 [] type = "HAT" -> triggerHiHat(time, config, FALSE, random)
                 [] type = "CLAP" -> triggerClap(time, config)
      voice == [type |-> type, time |-> time, config |-> config,
                layers |-> built.layers, threw |-> built.threw]
      others == { v \in BagToSet(voices) : v.type # type }
  IN /\ BagCardinality(voices) < MaxVoices
     /\ voices' = [v \in others |-> voices[v]] (+) SetToBag({voice})
     /\ UNCHANGED <<ratConfig, kickModEnabled, ratPreGain, ratWaveshaper, ratFilter,
                    ratPostGain, compressor, outputNode, conns, disposed, currentTime>>
     /\ UNCHANGED nonEngineVars

\* trigger(type, time, config); random feeds the hi-hat's Math.random() calls
trigger(type, time, config, random) ==
  LET built == CASE type = "KICK" -> triggerKick(time, config)
                 [] type = "SNARE" -> triggerSnare(time, config)
                 [] type = "HAT" -> triggerHiHat(time, config, FALSE, random)
                 [] type = "CLAP" -> triggerClap(time, config)
      voice == [type |-> type, time |-> time, config |-> config,
                layers |-> built.layers, threw |-> built.threw]
  IN /\ BagCardinality(voices) < MaxVoices
     /\ voices' = voices (+) SetToBag({voice})
     /\ UNCHANGED <<ratConfig, kickModEnabled, ratPreGain, ratWaveshaper, ratFilter,
                    ratPostGain, compressor, outputNode, conns, disposed, currentTime>>
     /\ UNCHANGED nonEngineVars

Next ==
  \/ \E type \in DrumTypes, in \in TriggerInputs, random \in RandomStreams :
       /\ type # "HAT" => random = CHOOSE r \in RandomStreams : TRUE
       /\ trigger(type, in[1], in[2], random)
  \/ \E config \in RatPartials : updateRat(config)
  \/ \E enabled \in BOOLEAN : setKickMod(enabled)
  \/ \E vol \in MasterVols : setMasterVolume(vol)
  \/ dispose

Spec == Init /\ [][Next]_vars

\* the audio clock advances (10 ms per step)
Tick ==
  /\ currentTime < MaxClock
  /\ currentTime' = currentTime + 1
  /\ UNCHANGED <<ratConfig, kickModEnabled, ratPreGain, ratWaveshaper, ratFilter,
                 ratPostGain, compressor, outputNode, conns, voices, disposed>>
  /\ UNCHANGED nonEngineVars

\* the effects chain on its own: parameter updates issued while the clock runs
NextChain ==
  \/ \E config \in ChainPartials : updateRat(config)
  \/ \E vol \in MasterVols : setMasterVolume(vol)
  \/ Tick

SpecChain == Init /\ [][NextChain]_vars

\* ------------------------------------------------- voices on their own
\* configs that differ from CfgScenario in decay and tone only
CfgDecayTone == [CfgScenario EXCEPT !.decay = 0, !.tone = 10]

\* trigger calls at an early and a late time, each with both configs
VoiceInputs ==
  {<<1000, CfgScenario>>, <<1000, CfgDecayTone>>, <<0, CfgScenario>>, <<0, CfgDecayTone>>}

\* the sequencer's calls, issued in any order while the clock runs
NextVoices ==
  \/ \E type \in DrumTypes, in \in VoiceInputs, random \in RandomStreams :
       /\ type # "HAT" => random = CHOOSE r \in RandomStreams : TRUE
       /\ trigger(type, in[1], in[2], random)
  \/ \E enabled \in BOOLEAN : setKickMod(enabled)
  \/ Tick

SpecVoices == Init /\ [][NextVoices]_vars

\* ------------------------------------------------------------ noise buffers
\* the sample rates of the audio context and the durations (ms) asked for:
\* those of the five call sites (10, 20, 250, 300) and 1, 0 and -10
SampleRates == {8000, 44100, 48000}
NoiseDurations == {-10, 0, 1, 10, 20, 250, 300}

\* Math.random() outcomes in millionths, in [0, 1)
RandomSamples == {0, 500000, 999999}

\* the samples of a buffer that the model keeps: the first and the last
NoiseProbes(length) == {1, length} \cap (1..length)

\* BaseAudioContext.createBuffer raises NotSupportedError unless the number of
\* frames is positive
CreateBufferThrows(length) == length <= 0

\* data[i] = Math.random() * 2 - 1, in millionths
NoiseData(length, random) ==
  [i \in NoiseProbes(length) |-> random[i] * 2 - 1000000]

\* a call site: createNoiseBuffer(duration), createBufferSource(), and the
\* buffer assigned to the new source; an exception of createBuffer leaves the
\* call site before the source exists
createNoiseSource(duration, random) ==
  LET length == NoiseLength(sampleRate, duration)
      id == Len(buffers) + 1
  IN /\ Len(noiseCalls) < MaxNoiseCalls
     /\ IF CreateBufferThrows(length)
          THEN /\ noiseCalls' = Append(noiseCalls,
                                       [duration |-> duration, threw |-> TRUE, buffer |-> 0])
               /\ UNCHANGED <<buffers, bufferSources>>
          ELSE /\ buffers' = Append(buffers, [length |-> length, sampleRate |-> sampleRate,
                                              data |-> NoiseData(length, random)])
               /\ bufferSources' = Append(bufferSources, id)
               /\ noiseCalls' = Append(noiseCalls,
                                       [duration |-> duration, threw |-> FALSE, buffer |-> id])
     /\ UNCHANGED <<sampleRate, engineVars, midiVars>>

NextNoise ==
  \E duration \in NoiseDurations :
    \E random \in [NoiseProbes(NoiseLength(sampleRate, duration)) -> RandomSamples] :
      createNoiseSource(duration, random)

InitNoise == EngineInit /\ MidiInit /\ \E rate \in SampleRates : NoiseInit(rate)

SpecNoise == InitNoise /\ [][NextNoise]_vars

\* ------------------------------------------------------------- MidiService
\* the devices the platform offers once access is granted
PlatformInputs == {"in1"}
PlatformOutputs == {"out1"}

\* init(): access is granted or denied; updateDeviceLists on success
midiInit(granted) ==
  /\ IF granted
       THEN /\ access' = TRUE
            /\ inputs' = PlatformInputs
            /\ outputs' = PlatformOutputs
       ELSE UNCHANGED <<access, inputs, outputs>>
  /\ UNCHANGED <<onmidimessage, activeInputId, activeOutputId>>
  /\ UNCHANGED <<midiClockVars, midiCallbackVars, midiCcVars, midiLastVars, nonMidiVars>>

\* the handler bindings after selectInput(id)
SelectInputBindings(id) ==
  LET unbound == IF activeInputId # "null" /\ activeInputId \in inputs
                   THEN onmidimessage \ {activeInputId}
                   ELSE onmidimessage
  IN IF id # "null" /\ id \in inputs THEN unbound \cup {id} ELSE unbound

selectInput(id) ==
  /\ onmidimessage' = SelectInputBindings(id)
  /\ activeInputId' = id
  /\ UNCHANGED <<access, inputs, outputs, activeOutputId>>
  /\ UNCHANGED <<midiClockVars, midiCallbackVars, midiCcVars, midiLastVars, nonMidiVars>>

selectOutput(id) ==
  /\ activeOutputId' = id
  /\ UNCHANGED <<access, inputs, outputs, onmidimessage, activeInputId>>
  /\ UNCHANGED <<midiClockVars, midiCallbackVars, midiCcVars, midiLastVars, nonMidiVars>>

\* send(data): the messages that reach output.send
Send(data) ==
  IF activeOutputId # "null" /\ activeOutputId \in outputs THEN << data >> ELSE << >>

\* sendClock()
SendClock == IF clockConfig.sendClock THEN Send(<<248>>) ELSE << >>

\* Partial<MidiClockConfig> values handed to setClockConfig
ClockPartials ==
  { {<<"source", "external">>}, {<<"source", "internal">>},
    {<<"sendClock", TRUE>>}, {<<"source", "external">>, <<"sendClock", FALSE>>} }

Bpms == {90, 120}

setClockConfig(config) ==
  /\ clockConfig' = ObjectAssign(clockConfig, config)
  /\ UNCHANGED <<clockInterval, timers, ppqCounter>>
  /\ UNCHANGED <<midiDeviceVars, midiCallbackVars, midiCcVars, midiLastVars, nonMidiVars>>

\* window.setInterval returns a handle that no active timer has; handles are
\* positive
SetInterval(active, ms) ==
  [id |-> CHOOSE h \in 1..(Cardinality(active) + 1) :
            /\ \A t \in active : t.id # h
            /\ \A g \in 1..(h - 1) : \E t \in active : t.id = g,
   us |-> ms]

\* clearInterval(handle)
ClearInterval(active, handle) == { t \in active : t.id # handle }

\* the timers after stopInternalClock()
StoppedTimers == IF clockInterval # 0 THEN ClearInterval(timers, clockInterval) ELSE timers

\* (60000 / bpm) / 24 ms, in microseconds
MsPerPulse(bpm) == 60000000 \div (bpm * 24)

startInternalClock(bpm) ==
  /\ IF clockConfig.source # "internal"
       THEN UNCHANGED <<clockInterval, timers, ppqCounter>>
       ELSE LET timer == SetInterval(StoppedTimers, MsPerPulse(bpm))
            IN /\ ppqCounter' = 0
               /\ timers' = StoppedTimers \cup {timer}
               /\ clockInterval' = timer.id
  /\ UNCHANGED clockConfig
  /\ UNCHANGED <<midiDeviceVars, midiCallbackVars, midiCcVars, midiLastVars, nonMidiVars>>

stopInternalClock ==
  /\ timers' = StoppedTimers
  /\ clockInterval' = 0
  /\ UNCHANGED <<clockConfig, ppqCounter>>
  /\ UNCHANGED <<midiDeviceVars, midiCallbackVars, midiCcVars, midiLastVars, nonMidiVars>>

\* updateClockBpm(bpm): stop and start again, only while a timer is running
updateClockBpm(bpm) ==
  /\ IF clockInterval = 0
       THEN UNCHANGED <<clockInterval, timers, ppqCounter>>
       ELSE IF clockConfig.source # "internal"
         THEN /\ timers' = StoppedTimers
              /\ clockInterval' = 0
              /\ UNCHANGED ppqCounter
         ELSE LET timer == SetInterval(StoppedTimers, MsPerPulse(bpm))
              IN /\ ppqCounter' = 0
                 /\ timers' = StoppedTimers \cup {timer}
                 /\ clockInterval' = timer.id
  /\ UNCHANGED clockConfig
  /\ UNCHANGED <<midiDeviceVars, midiCallbackVars, midiCcVars, midiLastVars, nonMidiVars>>

\* an active interval timer fires: sendClock(); ppqCounter++
ClockPulse ==
  /\ timers # {}
  /\ ppqCounter < MaxPulses
  /\ midiOut' = SendClock
  /\ ppqCounter' = ppqCounter + 1
  /\ UNCHANGED <<clockConfig, clockInterval, timers>>
  /\ UNCHANGED <<lastCc, lastNote, invoked>>
  /\ UNCHANGED <<midiDeviceVars, midiCallbackVars, midiCcVars, nonMidiVars>>

NextMidiClock ==
  \/ \E granted \in BOOLEAN : midiInit(granted)
  \/ \E id \in PlatformOutputs \cup {"null"} : selectOutput(id)
  \/ \E config \in ClockPartials : setClockConfig(config)
  \/ \E bpm \in Bpms : startInternalClock(bpm)
  \/ stopInternalClock
  \/ \E bpm \in Bpms : updateClockBpm(bpm)
  \/ ClockPulse

SpecMidiClock == Init /\ [][NextMidiClock]_vars

\* callbacks and module ids handed to the registration operations
Callbacks == {"cbA"}
ModuleIds == {"kick"}
LearnCallbacks == {"learnCb"}

\* Map.prototype.set(key, value) on a map kept in insertion order
MapSet(map, key, value) ==
  IF \E i \in DOMAIN map : map[i][1] = key
    THEN [i \in DOMAIN map |-> IF map[i][1] = key THEN <<key, value>> ELSE map[i]]
    ELSE Append(map, <<key, value>>)

onNoteOn(moduleId, callback) ==
  /\ noteOnCallbacks' = MapSet(noteOnCallbacks, moduleId, callback)
  /\ UNCHANGED <<externalClockCallbacks, noteOffCallbacks, ccCallbacks,
                 transportCallbacks, programChangeCallbacks>>
  /\ UNCHANGED <<midiDeviceVars, midiClockVars, midiCcVars, midiLastVars, nonMidiVars>>

onNoteOff(moduleId, callback) ==
  /\ noteOffCallbacks' = MapSet(noteOffCallbacks, moduleId, callback)
  /\ UNCHANGED <<externalClockCallbacks, noteOnCallbacks, ccCallbacks,
                 transportCallbacks, programChangeCallbacks>>
  /\ UNCHANGED <<midiDeviceVars, midiClockVars, midiCcVars, midiLastVars, nonMidiVars>>

onCc(callback) ==
  /\ Len(ccCallbacks) < MaxCallbacks
  /\ ccCallbacks' = Append(ccCallbacks, callback)
  /\ UNCHANGED <<externalClockCallbacks, noteOnCallbacks, noteOffCallbacks,
                 transportCallbacks, programChangeCallbacks>>
  /\ UNCHANGED <<midiDeviceVars, midiClockVars, midiCcVars, midiLastVars, nonMidiVars>>

onTransport(callback) ==
  /\ Len(transportCallbacks) < MaxCallbacks
  /\ transportCallbacks' = Append(transportCallbacks, callback)
  /\ UNCHANGED <<externalClockCallbacks, noteOnCallbacks, noteOffCallbacks,
                 ccCallbacks, programChangeCallbacks>>
  /\ UNCHANGED <<midiDeviceVars, midiClockVars, midiCcVars, midiLastVars, nonMidiVars>>

onProgramChange(callback) ==
  /\ Len(programChangeCallbacks) < MaxCallbacks
  /\ programChangeCallbacks' = Append(programChangeCallbacks, callback)
  /\ UNCHANGED <<externalClockCallbacks, noteOnCallbacks, noteOffCallbacks,
                 ccCallbacks, transportCallbacks>>
  /\ UNCHANGED <<midiDeviceVars, midiClockVars, midiCcVars, midiLastVars, nonMidiVars>>

onExternalClock(callback) ==
  /\ Len(externalClockCallbacks) < MaxCallbacks
  /\ externalClockCallbacks' = Append(externalClockCallbacks, callback)
  /\ UNCHANGED <<noteOnCallbacks, noteOffCallbacks, ccCallbacks,
                 transportCallbacks, programChangeCallbacks>>
  /\ UNCHANGED <<midiDeviceVars, midiClockVars, midiCcVars, midiLastVars, nonMidiVars>>

\* the calls callbacks.forEach(cb => cb(...args)) makes, in order
ForEach(registry, callbacks, args) ==
  [i \in DOMAIN callbacks |-> [registry |-> registry, callback |-> callbacks[i], args |-> args]]

\* the same for a Map moduleId -> callback
ForEachValue(registry, map, args) ==
  [i \in DOMAIN map |-> [registry |-> registry, callback |-> map[i][2], args |-> args]]

handleRealtimeMessage(status) ==
  CASE status = 248 -> IF clockConfig.source = "external"
                         THEN ForEach("externalClock", externalClockCallbacks, << >>)
                         ELSE << >>
    [] status = 250 -> ForEach("transport", transportCallbacks, <<"start">>)
    [] status = 252 -> ForEach("transport", transportCallbacks, <<"stop">>)
    [] status = 251 -> ForEach("transport", transportCallbacks, <<"continue">>)
    [] OTHER -> << >>

handleNoteOn(note, velocity, channel) ==
  ForEachValue("noteOn", noteOnCallbacks, <<note, velocity, channel>>)

handleNoteOff(note, channel) ==
  ForEachValue("noteOff", noteOffCallbacks, <<note, 0, channel>>)

\* this.ccMappings.find(m => m.cc === cc): the index of the first match, 0 if none
FindMapping(cc) ==
  LET hits == { i \in DOMAIN ccMappings : ccMappings[i].cc = cc }
  IN IF hits = {} THEN 0 ELSE CHOOSE i \in hits : \A j \in hits : i <= j

\* mapping.min + (value / 127) * (mapping.max - mapping.min), in 1/127
ActualValue(mapping, value) == 127 * mapping.min + value * (mapping.max - mapping.min)

\* mutant: learning mode does not return, the mapped callbacks are called as well
handleControlChange_noReturn(cc, value, channel) ==
  LET found == FindMapping(cc)
  IN (IF isLearning /\ learningCallback # "null"
        THEN << [registry |-> "learning", callback |-> learningCallback,
                 args |-> <<cc, channel>>] >>
        ELSE << >>)
     \o (IF found # 0
           THEN ForEach("cc", ccCallbacks, <<cc, ActualValue(ccMappings[found], value), channel>>)
           ELSE << >>)

handleControlChange(cc, value, channel) ==
  LET found == FindMapping(cc)
  IN IF isLearning /\ learningCallback # "null"
       THEN << [registry |-> "learning", callback |-> learningCallback,
                args |-> <<cc, channel>>] >>
       ELSE IF found # 0
         THEN ForEach("cc", ccCallbacks, <<cc, ActualValue(ccMappings[found], value), channel>>)
         ELSE << >>

handleProgramChange(program, channel) ==
  ForEach("programChange", programChangeCallbacks, <<program, channel>>)

\* event.data values an input delivers: note on, note on with velocity 0, note
\* off, control change, program change, clock, start, stop, continue, pitch
\* bend on channel 10, and an empty message
MidiMessages ==
  { <<144, 60, 100>>, <<144, 60, 0>>, <<128, 60, 64>>, <<176, 7, 64>>, <<192, 5>>,
    <<248>>, <<250>>, <<252>>, <<251>>, <<233, 0, 64>>, << >> }

\* control changes: controller 7 at values 0, 64 and 127, controller 74,
\* controller 7 on channel 10, and controller 10
CcMessages ==
  { <<176, 7, 0>>, <<176, 7, 64>>, <<176, 7, 127>>, <<176, 74, 127>>, <<185, 7, 64>>,
    <<176, 10, 64>> }

\* handleMidiMessage(event), called by an input that has the handler bound
handleMidiMessage(data) ==
  LET status == data[1]
      command == status - (status % 16)            \* status & 0xF0
      channel == (status % 16) + 1                 \* (status & 0x0F) + 1
      data1 == data[2]
      data2 == data[3]
  IN /\ onmidimessage # {}
     /\ IF Len(data) = 0
          THEN UNCHANGED <<lastCc, lastNote, invoked>>
          ELSE IF status >= 240
            THEN /\ invoked' = handleRealtimeMessage(status)
                 /\ UNCHANGED <<lastCc, lastNote>>
          ELSE CASE command = 144 /\ data2 > 0 ->
                      /\ lastNote' = <<data1, data2, channel>>
                      /\ invoked' = handleNoteOn(data1, data2, channel)
                      /\ UNCHANGED lastCc
                 [] command = 144 /\ ~(data2 > 0) ->
                      /\ invoked' = handleNoteOff(data1, channel)
                      /\ UNCHANGED <<lastCc, lastNote>>
                 [] command = 128 ->
                      /\ invoked' = handleNoteOff(data1, channel)
                      /\ UNCHANGED <<lastCc, lastNote>>
                 [] command = 176 ->
                      /\ lastCc' = <<data1, data2, channel>>
                      /\ invoked' = handleControlChange(data1, data2, channel)
                      /\ UNCHANGED lastNote
                 [] command = 192 ->
                      /\ invoked' = handleProgramChange(data1, channel)
                      /\ UNCHANGED <<lastCc, lastNote>>
                 [] OTHER -> UNCHANGED <<lastCc, lastNote, invoked>>
     /\ UNCHANGED midiOut
     /\ UNCHANGED <<midiDeviceVars, midiClockVars, midiCallbackVars, midiCcVars, nonMidiVars>>

startLearning(callback) ==
  /\ isLearning' = TRUE
  /\ learningCallback' = callback
  /\ UNCHANGED ccMappings
  /\ UNCHANGED <<midiDeviceVars, midiClockVars, midiCallbackVars, midiLastVars, nonMidiVars>>

stopLearning ==
  /\ isLearning' = FALSE
  /\ learningCallback' = "null"
  /\ UNCHANGED ccMappings
  /\ UNCHANGED <<midiDeviceVars, midiClockVars, midiCallbackVars, midiLastVars, nonMidiVars>>

\* CcMapping values handed to addCcMapping; two of them share controller 7
CcMappingInputs ==
  { [cc |-> 7, paramPath |-> "filter.cutoff", min |-> 20, max |-> 10000],
    [cc |-> 7, paramPath |-> "osc1.detune", min |-> -50, max |-> 50],
    [cc |-> 74, paramPath |-> "filter.cutoff", min |-> 0, max |-> 15] }

ParamPaths == { m.paramPath : m \in CcMappingInputs }

addCcMapping(mapping) ==
  /\ ccMappings' = Append(SelectSeq(ccMappings, LAMBDA m : m.paramPath # mapping.paramPath),
                          mapping)
  /\ UNCHANGED <<isLearning, learningCallback>>
  /\ UNCHANGED <<midiDeviceVars, midiClockVars, midiCallbackVars, midiLastVars, nonMidiVars>>

removeCcMapping(paramPath) ==
  /\ ccMappings' = SelectSeq(ccMappings, LAMBDA m : m.paramPath # paramPath)
  /\ UNCHANGED <<isLearning, learningCallback>>
  /\ UNCHANGED <<midiDeviceVars, midiClockVars, midiCallbackVars, midiLastVars, nonMidiVars>>

\* MidiService.dispose()
midiDispose ==
  /\ timers' = StoppedTimers
  /\ clockInterval' = 0
  /\ onmidimessage' = SelectInputBindings("null")
  /\ activeInputId' = "null"
  /\ activeOutputId' = "null"
  /\ noteOnCallbacks' = << >>
  /\ noteOffCallbacks' = << >>
  /\ ccCallbacks' = << >>
  /\ transportCallbacks' = << >>
  /\ externalClockCallbacks' = << >>
  /\ UNCHANGED <<access, inputs, outputs, clockConfig, ppqCounter, programChangeCallbacks>>
  /\ UNCHANGED <<midiCcVars, midiLastVars, nonMidiVars>>

\* registration, incoming messages and disposal
NextMidi ==
  \/ \E granted \in BOOLEAN : midiInit(granted)
  \/ \E id \in PlatformInputs \cup {"null"} : selectInput(id)
  \/ \E m \in ModuleIds, cb \in Callbacks : onNoteOn(m, cb)
  \/ \E m \in ModuleIds, cb \in Callbacks : onNoteOff(m, cb)
  \/ \E cb \in Callbacks : onCc(cb)
  \/ \E cb \in Callbacks : onTransport(cb)
  \/ \E cb \in Callbacks : onProgramChange(cb)
  \/ \E cb \in Callbacks : onExternalClock(cb)
  \/ setClockConfig({<<"source", "external">>})
  \/ \E data \in MidiMessages : handleMidiMessage(data)
  \/ midiDispose

SpecMidi == Init /\ [][NextMidi]_vars

\* controller mapping, learning and incoming control changes
NextMidiCc ==
  \/ \E granted \in BOOLEAN : midiInit(granted)
  \/ \E id \in PlatformInputs \cup {"null"} : selectInput(id)
  \/ \E cb \in Callbacks : onCc(cb)
  \/ \E cb \in LearnCallbacks : startLearning(cb)
  \/ stopLearning
  \/ \E mapping \in CcMappingInputs : addCcMapping(mapping)
  \/ \E paramPath \in ParamPaths : removeCcMapping(paramPath)
  \/ \E data \in CcMessages : handleMidiMessage(data)

SpecMidiCc == Init /\ [][NextMidiCc]_vars

\* ================================================================= claims
Voices == BagToSet(voices)

LayersOf(v) == { v.layers[i] : i \in DOMAIN v.layers }
SourcesOf(l) == { l.sources[i] : i \in DOMAIN l.sources }

\* voices added by the step (new copies in the primed bag)
Added == { v \in BagToSet(voices') : CopiesIn(v, voices') > CopiesIn(v, voices) }

ExpectedLayers(v) ==
  CASE v.type = "KICK" -> {3, 4}
    [] v.type = "SNARE" -> {4}
    [] v.type = "HAT" -> {1}
    [] v.type = "CLAP" -> {5}

\* C1: for every drum type and every in-range config (volume 0 and velocity 0
\* included) trigger raises no error and builds the complete voice.
C1_TriggerNeverThrows ==
  \A v \in Voices :
    InRange(v.config) => (~v.threw /\ Len(v.layers) \in ExpectedLayers(v))

ChainTargets ==
  <<ratPreGain.target, ratFilter.target, ratPostGain.target, ratWaveshaper.curve>>

\* C2: in every reachable state, the one after construction included,
\* updateRat({}) leaves every chain target and the stored RatConfig unchanged.
C2_EmptyUpdateChangesNothing ==
  [][updateRat(EmptyPartial) =>
       (ChainTargets' = ChainTargets /\ ratConfig' = ratConfig)]_vars

\* C3 (as claimed): every source a trigger starts has a stop scheduled.
C3_EverySourceHasStop ==
  \A v \in Voices : \A l \in LayersOf(v) : \A s \in SourcesOf(l) : s.stop # {}

\* the offset after trigger time at which each stopped source is stopped
StopOffset(type, layer) ==
  CASE type = "KICK" /\ layer = "sub" -> 600
    [] type = "KICK" /\ layer = "body" -> 400
    [] type = "KICK" /\ layer = "click" -> 50
    [] type = "SNARE" /\ layer = "bodyLow" -> 200
    [] type = "SNARE" /\ layer = "bodyHigh" -> 150
    [] type = "SNARE" /\ layer = "wires" -> 350
    [] type = "HAT" /\ layer = "hat" -> 100
    [] type = "CLAP" /\ layer = "tail" -> 340
    [] OTHER -> -1

\* C3 (amended): every oscillator a trigger starts, and the snare-wires and
\* clap-tail noise sources, have exactly one stop scheduled at a fixed offset
\* after the trigger's time; the kick noise-transient, snare click and clap
\* burst noise sources have no stop and play a one-shot buffer of 20, 10 and
\* 20 ms.
C3_SourcesStopOrRunOut ==
  \A v \in Voices : \A l \in LayersOf(v) : \A s \in SourcesOf(l) :
    IF s.kind = "oscillator" \/ l.name \in {"wires", "tail"}
      THEN s.stop = {v.time + StopOffset(v.type, l.name)}
      ELSE /\ s.stop = {}
           /\ s.kind = "bufferSource"
           /\ <<v.type, l.name, s.buffer.duration>> \in
                {<<"KICK", "noise", 20>>, <<"SNARE", "click", 10>>, <<"CLAP", "burst", 20>>}

C3_Witness ==
  /\ \E v \in Voices : v.type = "KICK" /\ Len(v.layers) = 4
  /\ \E v \in Voices : v.type = "CLAP" /\ Len(v.layers) = 5

\* C4: every numeric input is clamped to its domain before use: the kick base
\* frequency stays in [35,55] Hz, the filter-cutoff target in [200,20000] Hz,
\* the pre-gain target in [1,11], the post-gain and master targets in [0,1].
C4_InputsClamped ==
  /\ \A v \in Voices : \A l \in LayersOf(v) :
       (v.type = "KICK" /\ l.name = "sub") =>
         l.sources[1].frequency[1].value \in 3500..5500
  /\ ratFilter.target \in 200..20000
  /\ ratPreGain.target \in 10..110
  /\ ratPostGain.target \in 0..10
  /\ outputNode.target \in 0..10

\* C5: after dispose() a trigger call is rejected or a no-op: it creates no
\* node and adds no connection into the chain input.
C5_NoVoiceAfterDispose ==
  [][disposed => voices' = voices]_vars

\* chain nodes with a connection path to the destination
RECURSIVE Upstream(_, _)
Upstream(S, n) ==
  IF n = 0 THEN S
  ELSE Upstream(S \cup { e[1] : e \in { c \in conns : c[2] \in S } }, n - 1)

ReachDestination == Upstream({"destination"}, Cardinality(ChainNodes))

\* C6: once dispose() has been called, no node (chain stage or voice layer)
\* has a connection path to the destination, whatever is called afterwards.
C6_NoPathAfterDispose ==
  disposed =>
    /\ ReachDestination = {"destination"}
    /\ \A v \in Voices : \A l \in LayersOf(v) : l.out \notin ReachDestination

C6_Witness ==
  /\ disposed
  /\ BagCardinality(voices) = MaxVoices
  /\ outputNode.via = "setTargetAtTime"
  /\ ratPreGain.via = "setTargetAtTime"

LayerNames(v) == [i \in DOMAIN v.layers |-> v.layers[i].name]

LayerNamed(v, name) == CHOOSE l \in LayersOf(v) : l.name = name

LastEvent(events) == events[Len(events)]

\* every parameter of a kick layer that depends on the kick-mod flag
LayerMatchesFlag(v, l, flag) ==
  CASE l.name = "sub" ->
         LastEvent(l.nodes[1].gain).time = v.time + (IF flag THEN 400 ELSE 500)
    [] l.name = "body" ->
         /\ l.sources[1].frequency[1].value =
              (IF flag THEN 30000 + v.config.tune * 1000 ELSE 18000 + v.config.tune * 600)
         /\ LastEvent(l.sources[1].frequency).time = v.time + (IF flag THEN 40 ELSE 80)
         /\ l.nodes[1].gain[1].value =
              (MasterVol(v.config) * (IF flag THEN 12 ELSE 9)) \div 10
         /\ LastEvent(l.nodes[1].gain).time = v.time + (IF flag THEN 250 ELSE 350)
    [] l.name = "click" ->
         /\ l.sources[1].type = (IF flag THEN "sawtooth" ELSE "square")
         /\ l.sources[1].frequency[1].value = (IF flag THEN 12000 ELSE 8000)
         /\ l.nodes[1].frequency = (IF flag THEN 10000 ELSE 6000)
         /\ l.nodes[2].gain[1].value =
              (MasterVol(v.config) * (IF flag THEN 5 ELSE 3)) \div 10
    [] l.name = "noise" -> flag

Kicks(bag) == { v \in BagToSet(bag) : v.type = "KICK" }

\* C7: all layers of one kick are built from the value the kick-mod flag had
\* at its trigger call; a later setKickMod changes no voice already built and
\* only decides the variant of kicks triggered afterwards.
C7_KickModFixedAtTrigger ==
  [][ /\ \A v \in Kicks(voices') : \E flag \in BOOLEAN :
           /\ \A l \in LayersOf(v) : LayerMatchesFlag(v, l, flag)
           /\ ("noise" \in { l.name : l \in LayersOf(v) }) <=> flag
      /\ \A v \in Added : v.type = "KICK" =>
           \A l \in LayersOf(v) : LayerMatchesFlag(v, l, kickModEnabled)
      /\ kickModEnabled' # kickModEnabled => voices' = voices ]_vars

\* a modded and an unmodded copy of the same kick exist side by side while
\* the flag is off again
C7_Witness ==
  /\ ~kickModEnabled
  /\ \E v, w \in Kicks(voices) :
       /\ v.time = w.time /\ v.config = w.config
       /\ Len(v.layers) = 4 /\ Len(w.layers) = 3

\* C8: a KICK trigger connects exactly sub, body and click to the chain input
\* when the flag is off and sub, body, click and noise transient when it is
\* on; the body sweep lasts 80 ms when off and 40 ms when on.
C8_KickLayerCount ==
  [][ \A v \in Added : v.type = "KICK" =>
        /\ LayerNames(v) = (IF kickModEnabled
                              THEN <<"sub", "body", "click", "noise">>
                              ELSE <<"sub", "body", "click">>)
        /\ \A l \in LayersOf(v) : l.out = "ratInput"
        /\ LET sweep == LayerNamed(v, "body").sources[1].frequency
           IN /\ Len(sweep) = 2
              /\ sweep[2].op = "exponentialRampToValueAtTime"
              /\ sweep[2].time - sweep[1].time = (IF kickModEnabled THEN 40 ELSE 80) ]_vars

C8_Witness ==
  /\ \E v \in Kicks(voices) : Len(v.layers) = 4 /\ v.config = CfgScenario
  /\ \E v \in Kicks(voices) : Len(v.layers) = 3 /\ v.config = CfgScenario

\* C9: no public operation changes or removes a voice sub-graph built by an
\* earlier trigger, and a step that changes the chain's parameters, the
\* RatConfig or the kick-mod flag changes no voice at all.
C9_VoicesNeverTouched ==
  [][ /\ voices \sqsubseteq voices'
      /\ (chainParams' # chainParams \/ ratConfig' # ratConfig
            \/ kickModEnabled' # kickModEnabled) => voices' = voices ]_vars

C9_Witness ==
  /\ BagCardinality(voices) = MaxVoices
  /\ \E v \in Voices : CopiesIn(v, voices) = 2
  /\ ratConfig # DefaultRatConfig
  /\ kickModEnabled
  /\ outputNode.target = 5

\* C10: the engine has one chain, and every voice layer ends in its own gain
\* node, connected to the chain input ratInput and to no other chain stage.
C10_AllLayersIntoRatInput ==
  /\ \A n \in ChainNodes : Cardinality({ c \in conns : c[1] = n }) <= 1
  /\ \A c \in conns : c[2] = "ratPreGain" <=> c[1] = "ratInput"
  /\ \A v \in Voices : \A l \in LayersOf(v) :
       /\ l.out = "ratInput"
       /\ l.nodes[Len(l.nodes)].kind = "gain"

C10_Witness ==
  /\ \E v \in Voices : v.type = "KICK" /\ Len(v.layers) = 4
  /\ \E v \in Voices : v.type = "SNARE" /\ Len(v.layers) = 4

Supplied(config, f) == \E kv \in config : kv[1] = f
ValueOf(config, f) == (CHOOSE kv \in config : kv[1] = f)[2]

\* C11: each RatConfig field holds the value of the most recent updateRat call
\* whose partial included it, or its default (0.4, 0.8, 0.8) if none did;
\* fields absent from a partial are left unchanged.
C11_LastWriteWins ==
  [][ /\ ratPreGain.via = "value" =>
           ratConfig = [distortion |-> 4, filter |-> 8, volume |-> 8]
      /\ \A config \in ChainPartials : updateRat(config) =>
           \A f \in {"distortion", "filter", "volume"} :
             ratConfig'[f] = (IF Supplied(config, f) THEN ValueOf(config, f)
                                                    ELSE ratConfig[f])
      /\ (\A config \in ChainPartials : ~updateRat(config)) =>
           ratConfig' = ratConfig ]_vars

\* distortion and filter come from two different calls, volume from none
C11_Witness ==
  /\ ratConfig = [distortion |-> 1, filter |-> 0, volume |-> 8]
  /\ ratPreGain.via = "setTargetAtTime"

\* C12: after every updateRat call the pre-gain target is 1 + 10*distortion,
\* the curve is the one built from distortion, the cutoff target is
\* 200*(20000/200)^filter and the post-gain target is volume, all taken from
\* the merged RatConfig.
C12_TargetsFollowConfig ==
  ratPreGain.via = "setTargetAtTime" =>
    /\ ratPreGain.target = 10 + 10 * ratConfig.distortion
    /\ ratWaveshaper.curve = makeRatCurve(ratConfig.distortion)
    /\ ratFilter.target = FilterFreq(ratConfig.filter)
    /\ ratConfig.filter = 0 => ratFilter.target = 200
    /\ ratConfig.filter = 5 => ratFilter.target = 2000
    /\ ratConfig.filter = 10 => ratFilter.target = 20000
    /\ ratPostGain.target = ratConfig.volume

C12_Witness ==
  /\ ratConfig = [distortion |-> 10, filter |-> 5, volume |-> 5]
  /\ ratPreGain.target = 110
  /\ ratFilter.target = 2000
  /\ ratPostGain.target = 5

\* C13: every change updateRat and setMasterVolume make to the live chain
\* (pre-gain, curve, cutoff, post-gain, master gain) is a smoothed approach
\* with a 50 ms time constant starting at the current clock time, never an
\* instantaneous replacement.
C13_AllChangesSmoothed ==
  [][ /\ \A pair \in { <<ratPreGain, ratPreGain'>>, <<ratFilter, ratFilter'>>,
                       <<ratPostGain, ratPostGain'>>, <<outputNode, outputNode'>> } :
           pair[2] # pair[1] =>
             /\ pair[2].via = "setTargetAtTime"
             /\ pair[2].timeConstant = 50
             /\ pair[2].startTime = currentTime
      /\ ratWaveshaper' # ratWaveshaper => ratWaveshaper'.via = "setTargetAtTime" ]_vars

\* C14: setMasterVolume changes the master-gain target and nothing else.
C14_MasterVolumeOnly ==
  [][ /\ outputNode' # outputNode =>
           /\ UNCHANGED <<ratConfig, kickModEnabled, ratPreGain, ratWaveshaper,
                          ratFilter, ratPostGain, compressor, conns, voices>>
           /\ compressor' = [threshold |-> -12, knee |-> 6, ratio |-> 4,
                             attack |-> 3, release |-> 150]
      /\ \A vol \in MasterVols : setMasterVolume(vol) =>
           (outputNode'.target = vol /\ voices' = voices
              /\ ratPostGain' = ratPostGain) ]_vars

C14_Witness ==
  /\ outputNode.target = 15
  /\ BagCardinality(voices) = MaxVoices
  /\ ratPostGain.target = 5
  /\ kickModEnabled

Claps == { v \in Voices : v.type = "CLAP" }

\* C15: a CLAP trigger at T creates exactly 4 burst sub-graphs starting at T,
\* T+12, T+24 and T+36 ms and one tail sub-graph starting at T+40 ms, and
\* nothing else, for every config.
C15_ClapBurstTimes ==
  \A v \in Claps :
    /\ LayerNames(v) = <<"burst", "burst", "burst", "burst", "tail">>
    /\ \A i \in 1..5 : Len(v.layers[i].sources) = 1
    /\ [i \in 1..5 |-> v.layers[i].sources[1].start - v.time] = <<0, 12, 24, 36, 40>>
    /\ \A i \in 1..5 : v.layers[i].sources[1].kind = "bufferSource"

C15_Witness ==
  /\ \E v \in Claps : v.time = 1000 /\ v.config = CfgScenario
  /\ \E v \in Claps : v.time = 500 /\ v.config = CfgOutOfRange

\* initial amplitude of burst i of a clap (the first event of its gain node)
BurstAmp(v, i) == v.layers[i].nodes[2].gain[1].value

\* C16 (as claimed): for every in-range config, boundaries included, the 4th
\* burst starts strictly louder than bursts 1, 2 and 3.
C16_LastBurstLoudest ==
  \A v \in Claps : InRange(v.config) =>
    \A i \in 1..3 : BurstAmp(v, 4) > BurstAmp(v, i)

\* C16 (amended): with volume > 0 and velocity > 0 the 4th burst starts
\* strictly louder than (twice as loud as) bursts 1-3; with volume = 0 or
\* velocity = 0 all four bursts start at amplitude 0.
C16_LastBurstLoudestUnlessSilent ==
  \A v \in Claps : InRange(v.config) =>
    IF v.config.volume > 0 /\ v.config.velocity > 0
      THEN \A i \in 1..3 : /\ BurstAmp(v, 4) > BurstAmp(v, i)
                            /\ BurstAmp(v, 4) = 2 * BurstAmp(v, i)
                            /\ BurstAmp(v, i) > 0
      ELSE \A i \in 1..4 : BurstAmp(v, i) = 0

C16_Witness ==
  /\ \E v \in Claps : v.config = CfgScenario
  /\ \E v \in Claps : v.config = CfgSilent

Abs(n) == IF n < 0 THEN -n ELSE n

\* the curve in use was built by updateRat from distortion = 1
CurveOfFullDrive == ratPreGain.via = "setTargetAtTime" /\ ratConfig.distortion = 10

\* C17 (as claimed): with distortion = 1, for every table input x > 0,
\* y(x) and y(-x) differ in magnitude and |y(x)| >= |y(-x)|.
C17_PositiveNotSmaller ==
  CurveOfFullDrive =>
    \A i \in CurveIndices : i > 22050 =>
      LET yp == Abs(ratWaveshaper.curve[i])
          yn == Abs(ratWaveshaper.curve[44100 - i])
      IN yp # yn /\ yp >= yn

\* C17 (amended): with distortion = 1, for every table input x > 0, y(x) and
\* y(-x) differ in magnitude; |y(x)| > |y(-x)| only for the small inputs
\* x < 0.0323 (indices up to 22761), and for every larger x the positive
\* branch is the smaller one, |y(x)| < |y(-x)|, and never exceeds 0.9.
C17_PositiveClipsLower ==
  CurveOfFullDrive =>
    \A i \in CurveIndices : i > 22050 =>
      LET yp == Abs(ratWaveshaper.curve[i])
          yn == Abs(ratWaveshaper.curve[44100 - i])
      IN /\ yp # yn
         /\ yp <= 900000
         /\ IF i <= 22761 THEN yp > yn ELSE yp < yn

C17_Witness ==
  /\ CurveOfFullDrive
  /\ ratWaveshaper.curve[33075] = 900000
  /\ ratWaveshaper.curve[11025] = -1000000
  /\ ratWaveshaper.curve[22197] > -ratWaveshaper.curve[21903]

\* C18: the cutoff target computed by updateRat is strictly increasing in the
\* filter parameter over [0,1], exactly 200 Hz at 0 and 20000 Hz at 1.
C18_CutoffMonotonic ==
  [][ /\ ( /\ ratFilter.via = "setTargetAtTime"
           /\ ratFilter'.via = "setTargetAtTime"
           /\ ratConfig.filter \in 0..10
           /\ ratConfig'.filter \in 0..10
           /\ ratConfig.filter < ratConfig'.filter )
         => ratFilter.target < ratFilter'.target
      /\ ratFilter'.via = "setTargetAtTime" =>
           /\ ratConfig'.filter = 0 => ratFilter'.target = 200
           /\ ratConfig'.filter = 10 => ratFilter'.target = 20000
           /\ ratConfig'.filter \in 1..9 => ratFilter'.target \in 201..19999 ]_vars

C18_Witness ==
  /\ ratFilter.via = "setTargetAtTime"
  /\ ratConfig.filter = 10
  /\ ratFilter.target = 20000
  /\ currentTime = MaxClock

Hats == { v \in Voices : v.type = "HAT" }

\* C20: every HAT trigger, whatever tune and velocity, creates exactly 6
\* oscillators at 1.0, 1.34, 1.67, 1.91, 2.18 and 2.41 times 300 + 400*tune
\* Hz, in that order.
C20_HatOscillatorBank ==
  \A v \in Hats :
    /\ Len(v.layers) = 1
    /\ Len(v.layers[1].sources) = 6
    /\ \A i \in 1..6 :
         /\ v.layers[1].sources[i].kind = "oscillator"
         /\ v.layers[1].sources[i].frequency[1].value =
              (300 + 40 * v.config.tune) * <<100, 134, 167, 191, 218, 241>>[i]

C20_Witness ==
  /\ \E v \in Hats : v.config = CfgOutOfRange
  /\ \E v \in Hats : v.config = CfgMuted

NoiseCalls == { noiseCalls[i] : i \in DOMAIN noiseCalls }

\* C21: for every duration > 0 and every sample rate createNoiseBuffer returns
\* a buffer of exactly ceil(duration * sampleRate) samples, each within [-1,1];
\* every call makes a fresh buffer, which is attached to exactly one source.
C21_NoiseBufferLength ==
  /\ \A c \in NoiseCalls : c.duration > 0 =>
       /\ ~c.threw
       /\ c.buffer \in DOMAIN buffers
       /\ LET b == buffers[c.buffer]
          IN /\ b.length * 1000 >= sampleRate * c.duration
             /\ (b.length - 1) * 1000 < sampleRate * c.duration
             /\ \A i \in DOMAIN b.data : b.data[i] \in -1000000..1000000
             /\ DOMAIN b.data # {}
  /\ \A i, j \in DOMAIN noiseCalls :
       (i # j /\ ~noiseCalls[i].threw /\ ~noiseCalls[j].threw) =>
         noiseCalls[i].buffer # noiseCalls[j].buffer
  /\ \A b \in DOMAIN buffers :
       Cardinality({ k \in DOMAIN bufferSources : bufferSources[k] = b }) = 1

\* 1 ms at 44100 Hz is 44.1 samples, rounded up to 45; two buffers of the
\* same duration are distinct
C21_Witness ==
  /\ sampleRate = 44100
  /\ Len(buffers) = 2
  /\ \A c \in NoiseCalls : c.duration = 1
  /\ \A b \in DOMAIN buffers : buffers[b].length = 45
  /\ bufferSources = <<1, 2>>
  /\ buffers[1].data[45] = 999998
  /\ buffers[2].data[1] = -1000000

\* C22: for a duration <= 0 createNoiseBuffer yields an empty buffer (length
\* 0) and raises no error.
C22_EmptyBufferNoError ==
  \A c \in NoiseCalls : c.duration <= 0 =>
    /\ ~c.threw
    /\ c.buffer \in DOMAIN buffers
    /\ buffers[c.buffer].length = 0

\* a voice's sub-graph without the hi-hat's random detune values
Shape(v) ==
  [i \in DOMAIN v.layers |->
     [v.layers[i] EXCEPT !.sources =
        [k \in DOMAIN v.layers[i].sources |-> [v.layers[i].sources[k] EXCEPT !.detune = 0]]]]

\* the kick-mod flag a kick was built with shows in its noise transient
BuiltModded(v) == "noise" \in { l.name : l \in LayersOf(v) }

StartOffset(v, i) ==
  IF v.type = "CLAP" THEN <<0, 12, 24, 36, 40>>[i] ELSE 0

\* C24: whatever the order of the calls' time arguments and the clock time of
\* the call, every source of a voice is scheduled to start at exactly the
\* time its trigger call declared (clap bursts and tail at their offsets).
C24_StartAtDeclaredTime ==
  \A v \in Voices : \A i \in DOMAIN v.layers : \A s \in SourcesOf(v.layers[i]) :
    s.start = v.time + StartOffset(v, i)

\* a voice declared for time 1000 and one for time 0 side by side, the clock
\* having advanced past 0
C24_Witness ==
  /\ currentTime = MaxClock
  /\ \E v, w \in Voices :
       /\ v.type = "CLAP" /\ w.type = "KICK"
       /\ v.time = 1000 /\ w.time = 0
       /\ Len(v.layers) = 5 /\ Len(w.layers) = 4

\* C25: every HAT voice uses the closed parameters: the amplitude envelope
\* decays over 50 ms and all six oscillators stop 100 ms after trigger time.
C25_HatAlwaysClosed ==
  \A v \in Hats : \A l \in LayersOf(v) :
    /\ LastEvent(l.nodes[4].gain) = ExpRamp(Epsilon, v.time + 50)
    /\ Len(l.nodes[4].gain) = 2
    /\ \A s \in SourcesOf(l) : s.stop = {v.time + 100}

C25_Witness ==
  /\ disposed
  /\ ratPreGain.via = "setTargetAtTime"
  /\ \E v \in Hats : v.config = CfgScenario
  /\ \E v \in Hats : v.config = CfgOutOfRange

ChainEdges ==
  { <<"ratInput", "ratPreGain">>, <<"ratPreGain", "ratWaveshaper">>,
    <<"ratWaveshaper", "ratFilter">>, <<"ratFilter", "ratPostGain">>,
    <<"ratPostGain", "compressor">>, <<"compressor", "outputNode">>,
    <<"outputNode", "destination">> }

\* C26: before dispose the chain's connections are exactly input -> preGain ->
\* waveshaper -> filter -> postGain -> compressor -> master gain ->
\* destination, with one connection from the master gain to the destination;
\* trigger, updateRat, setMasterVolume and setKickMod add or remove none, and
\* dispose removes only the master gain's outgoing connection.
C26_ChainFixed ==
  [][ /\ ~disposed => conns = ChainEdges
      /\ ~disposed' => conns' = ChainEdges
      /\ Cardinality({ e \in ChainEdges : e[1] = "outputNode" }) = 1
      /\ disposed' => conns' = ChainEdges \ { <<"outputNode", "destination">> }
      /\ conns' # conns => (~disposed /\ disposed') ]_vars

C26_Witness ==
  /\ disposed
  /\ conns = ChainEdges \ { <<"outputNode", "destination">> }
  /\ BagCardinality(voices) = MaxVoices
  /\ kickModEnabled
  /\ ratConfig.distortion = 16

\* the time at which a source falls silent, in 1/44100 ms: its stop time, or
\* the end of its one-shot buffer when that comes first or no stop is scheduled
SourceEnd(s) ==
  LET stopAt == (CHOOSE t \in s.stop : TRUE) * SampleRate
      bufferEnd == s.start * SampleRate + s.buffer.length * 1000
  IN IF s.kind = "oscillator" THEN stopAt
     ELSE IF s.stop = {} THEN bufferEnd
     ELSE IF bufferEnd < stopAt THEN bufferEnd ELSE stopAt

\* the amplitude envelopes of a layer: its gain nodes with scheduled events
Envelopes(l) ==
  { l.nodes[i].gain : i \in { k \in DOMAIN l.nodes :
                               l.nodes[k].kind = "gain" /\ l.nodes[k].gain # << >> } }

\* C27: in every layer of every voice the source does not end before the
\* amplitude envelope has finished, and the envelope's event times are
\* non-decreasing.
C27_SourceOutlastsEnvelope ==
  \A v \in Voices : \A l \in LayersOf(v) :
    /\ Envelopes(l) # {}
    /\ \A env \in Envelopes(l) :
         /\ \A i \in 1..(Len(env) - 1) : env[i].time <= env[i + 1].time
         /\ env[1].time = l.sources[1].start
         /\ \A s \in SourcesOf(l) :
              /\ s.kind = "oscillator" => s.stop # {}
              /\ SourceEnd(s) >= LastEvent(env).time * SampleRate

C27_Witness ==
  /\ \E v \in Voices : v.type = "SNARE" /\ LayerNames(v) = <<"bodyLow", "bodyHigh", "wires", "click">>
  /\ \E v \in Kicks(voices) : LayerNames(v) = <<"sub", "body", "click", "noise">>

\* C28: whenever the configured clock source is 'external' no internal clock
\* timer is active, and at most one internal clock timer is ever active.
C28_NoTimerWhenExternal ==
  /\ clockConfig.source = "external" => (clockInterval = 0 /\ timers = {})
  /\ Cardinality(timers) <= 1

\* C29: after MidiService.dispose() every callback registry (note-on,
\* note-off, CC, transport, program-change, external-clock) is empty.
C29_DisposeClearsRegistries ==
  [][ midiDispose =>
        /\ noteOnCallbacks' = << >>
        /\ noteOffCallbacks' = << >>
        /\ ccCallbacks' = << >>
        /\ transportCallbacks' = << >>
        /\ programChangeCallbacks' = << >>
        /\ externalClockCallbacks' = << >> ]_vars

Invoked(registry) == SelectSeq(invoked, LAMBDA e : e.registry = registry)

====
